---- MODULE Spec2Model ----
(***************************************************************************)
(* The scholarship hunter: its agent pipeline and its browser client.      *)
(*                                                                         *)
(*  Spec    the AI-agent pipeline of spec.md sections 4 and 7:             *)
(*          makeDecision, analyze, recordThought, recordMetric over the    *)
(*          Decision / Thought / Metric stores, the completion client and  *)
(*          the "dashboard" broadcast channel.  One request runs at a      *)
(*          time; every await of a request is one step.                    *)
(*                                                                         *)
(*  SpecWS  the browser-side WebSocketService singleton                    *)
(*          (frontend/src/services/websocket.js) and the useWebSocket      *)
(*          hook that drives it: sockets, reconnection, send.              *)
(*                                                                         *)
(*  SpecMsg the listeners of the service and the handling of incoming      *)
(*          messages (addEventListener, removeEventListener,               *)
(*          handleMessage), on the socket one hook opened.                 *)
(*                                                                         *)
(*  SpecRealtime  the messages handled by useRealtimeScholarships          *)
(*          (frontend/src/hooks/useScholarships.js).                       *)
(*                                                                         *)
(* Confidence values are hundredths: 50 stands for 0.5, 150 for 1.5.       *)
(***************************************************************************)
EXTENDS Integers, Sequences, FiniteSets, Bags, TLC

VARIABLES
    \* ---- agent pipeline
    decisions,      \* Decision rows, in the order they were written
    thoughts,       \* Thought rows
    metrics,        \* Metric rows
    channel,        \* messages published on the "dashboard" topic
    pc,             \* position of the request in flight
    op,             \* operation of the request in flight
    req,            \* number of requests started so far
    clock,          \* the clock the requests read (it never goes back)
    start,          \* clock at the start of the request
    prompt,         \* what the request embeds in its user prompt
    resp,           \* result of the completion call
    output,         \* parsed or defaulted output of makeDecision
    saved,          \* the Decision row written by step 4
    tstep,          \* recordThought in progress: its next step
    thought,        \* the Thought row recordThought has persisted
    exc,            \* message of the exception being handled
    result,         \* what the caller of the finished request observed
    ncalls,         \* outbound completion calls made by the request
    faults,         \* storage and transport faults met by the request
    nfaults,        \* faults injected so far
    \* ---- WebSocketService
    sockets,            \* the WebSocket objects that are not closed, by slot (a
                        \* closed socket fires no event and is referenced nowhere)
    connections,        \* this.connections: endpoint -> slot of the socket (0: no entry)
    reconnectAttempts,  \* this.reconnectAttempts: endpoint -> count (-1: no entry)
    timers,             \* pending setTimeout callbacks of attemptReconnect
    released,           \* endpoint -> disconnect was called and connect was not
                        \* called since
    closeEvent,         \* the close event ws.onclose has just handled (none once
                        \* another handler has run)
    attemptsSinceOpen,  \* endpoint -> reconnection attempts made since a socket
                        \* of the endpoint last opened, counted up to
                        \* maxReconnectAttempts + 1
    sendResult,         \* the call of send just made: its arguments, what it
                        \* returned and the frame it handed to the socket (none
                        \* once another handler has run)
    \* ---- incoming messages
    listeners,          \* this.listeners: "connectionId:eventType" -> callbacks, in
                        \* registration order (no entry: the empty list)
    cleanups,           \* cleanup functions returned by the hook's addEventListener
                        \* and not called yet
    lastAdd,            \* the registration made last, with the list it found, as
                        \* long as no other registration or cleanup followed
    delivery,           \* the message event handled last: the handlers it called,
                        \* in order, and the toast it raised (none once the
                        \* listeners have changed)
    recentScholarships, \* state of useRealtimeScholarships
    received            \* scholarships of the 'scholarship_found' messages the
                        \* hook handled, oldest first

agentVars == <<decisions, thoughts, metrics, channel, pc, op, req, clock, start,
               prompt, resp, output, saved, tstep, thought, exc, result, ncalls,
               faults, nfaults>>

wsVars == <<sockets, connections, reconnectAttempts, timers, released, closeEvent,
           attemptsSinceOpen, sendResult>>

msgVars == <<listeners, cleanups, lastAdd, delivery, recentScholarships, received>>

vars == <<agentVars, wsVars, msgVars>>

-----------------------------------------------------------------------------
(* Bounds of the model *)

MaxRequests == 2
MaxContent == 3
MaxFaults == 2
MaxSockets == 2
MaxListeners == 3
MaxMessages == 11

(* Tunable constants of the pipeline (spec.md section 9, open question) *)

FallbackConfidence == 50
TruncationBudget == 2

-----------------------------------------------------------------------------
(* Completion texts and their parsing *)

JsonGood == "{\"decision\":\"europe\",\"reasoning\":\"most funded\",\"confidence\":0.9,\"additional_data\":{\"region\":1}}"
JsonOver == "{\"decision\":\"europe\",\"reasoning\":\"certain\",\"confidence\":1.5,\"additional_data\":{}}"
Prose == "Focus on Europe first"
JsonCut == "{\"decision\":\"europe\",\"reasoning\":"

DecisionTexts == {JsonGood, JsonOver, Prose, JsonCut}

ScholarshipsTwo == "{\"scholarships\":[{\"name\":\"ETH\"},{\"name\":\"DAAD\"}],\"analysis_summary\":\"two\"}"

AnalysisTexts == {ScholarshipsTwo, Prose}

NoRecord == [decision |-> "", reasoning |-> "", confidence |-> 0, extra |-> {}]
NoAnalysis == [scholarships |-> <<>>, summary |-> ""]

\* A strict parse of a decision text: the structured record of a well-formed
\* text, verbatim, or a failure.
ParseDecision(text) ==
    CASE text = JsonGood  -> [ok |-> TRUE, value |-> [decision |-> "europe", reasoning |-> "most funded",
                                                      confidence |-> 90, extra |-> {"region"}]]
      [] text = JsonOver  -> [ok |-> TRUE, value |-> [decision |-> "europe", reasoning |-> "certain",
                                                      confidence |-> 150, extra |-> {}]]
      [] OTHER            -> [ok |-> FALSE, value |-> NoRecord]

ParseAnalysis(text) ==
    CASE text = ScholarshipsTwo -> [ok |-> TRUE, value |-> [scholarships |-> <<"ETH", "DAAD">>, summary |-> "two"]]
      [] OTHER                  -> [ok |-> FALSE, value |-> NoAnalysis]

\* (mutant of FallbackOutput: the default carries the confidence of a failure)
FallbackOutputZero(text) ==
    [decision |-> "", reasoning |-> text, confidence |-> 0, extra |-> {}]

\* Step 3 of makeDecision when the parse fails: the raw text as reasoning, a
\* neutral confidence, no extra data.
FallbackOutput(text) ==
    [decision |-> "", reasoning |-> text, confidence |-> FallbackConfidence, extra |-> {}]

Min(a, b) == IF a < b THEN a ELSE b

\* Step 2 of analyze: the content cut to the character budget.
Truncate(content) == SubSeq(content, 1, Min(Len(content), TruncationBudget))

Contents == {[i \in 1..n |-> "x"] : n \in 0..MaxContent}

-----------------------------------------------------------------------------
(* The completion client: one request, one result *)

CompletionErrors == {"HTTP 500"}

\* How long a completion call may take, in clock ticks.
Delays == {0, 1}

OkResponse(text) == [error |-> "", content |-> text, tokens |-> Len(text)]
ErrorResponse(msg) == [error |-> msg, content |-> "", tokens |-> 0]
NoResponse == [error |-> "", content |-> "", tokens |-> 0]

Responses(o) ==
    {OkResponse(t) : t \in (IF o = "makeDecision" THEN DecisionTexts ELSE AnalysisTexts)}
        \cup {ErrorResponse(m) : m \in CompletionErrors}

-----------------------------------------------------------------------------
(* Rows and results *)

DecisionRow(r, success, out, conf, elapsed, tokens, err) ==
    [kind |-> "decision", req |-> r, success |-> success, output |-> out,
     confidence |-> conf, elapsed |-> elapsed, tokens |-> tokens, error |-> err]

ThoughtRow(r, ttype, content, count) ==
    [kind |-> "thought", req |-> r, ttype |-> ttype, content |-> content,
     count |-> count]

\* The envelope published for a Thought.
ThinkingMessage(t) ==
    [type |-> "ai_thinking", content |-> t.content, thoughtType |-> t.ttype,
     req |-> t.req]

MetricRow(r, name, value) ==
    [kind |-> "metric", req |-> r, name |-> name, value |-> value]

AnalysisResult(err, raw, value) ==
    [kind |-> "analysis", error |-> err, rawResponse |-> raw,
     scholarships |-> value.scholarships, summary |-> value.summary]

NoRow == [kind |-> "none"]

Returned(v) == [status |-> "returned", error |-> "", value |-> v]
Raised(msg) == [status |-> "raised", error |-> msg, value |-> NoRow]
NoResult == [status |-> "none", error |-> "", value |-> NoRow]

StoreDown == "storage unavailable"

-----------------------------------------------------------------------------
(* WebSocketService: constants and the socket objects of the browser *)

maxReconnectAttempts == 5
reconnectDelay == 1000

Endpoints == {"dashboard"}

\* Close codes a close event may carry: normal, going away, abnormal.
NormalClosure == 1000
GoingAway == 1001
AbnormalClosure == 1006

NewSocket(e) == [endpoint |-> e, readyState |-> "CONNECTING", closeCode |-> 0]
NoSocket == [endpoint |-> "", readyState |-> "CLOSED", closeCode |-> 0]

Slots == 1..MaxSockets

\* ws.close(code): starts the closing handshake of a socket that is not
\* already closing or closed.
Close(ws, code) ==
    IF ws.readyState \in {"CONNECTING", "OPEN"}
       THEN [ws EXCEPT !.readyState = "CLOSING", !.closeCode = code]
       ELSE ws

\* What ws.onclose did with a close event: its code, and whether it went on
\* to attemptReconnect.
CloseEvent(e, code, reconnect) == [endpoint |-> e, code |-> code, reconnect |-> reconnect]
NoCloseEvent == CloseEvent("", 0, FALSE)

\* The messages a component sends, and JSON.stringify of a message.
Outgoing == {[type |-> "ping"]}

Stringify(m) == "{\"type\":\"" \o m.type \o "\"}"

NoSend == [connectionId |-> "", message |-> [type |-> ""], returned |-> FALSE, frame |-> ""]

\* The fields of the service, as one value.
Service == [sockets |-> sockets, connections |-> connections,
            reconnectAttempts |-> reconnectAttempts]

-----------------------------------------------------------------------------
(* Incoming messages: listener keys, text frames, handler calls *)

\* Connection ids of the hooks, and the message types components listen to.
ConnectionIds == {"dashboard", "ai-chat"}
EventTypes == {"ai_thinking", "scholarship_found"}

\* Callbacks a component registers; "crash" throws when it is called.
Callbacks == {"render", "crash"}
Throws(callback) == callback = "crash"

Key(connectionId, eventType) == connectionId \o ":" \o eventType
ListenerKeys == {Key(id, t) : id \in ConnectionIds, t \in EventTypes}

\* The hooks that open the dashboard socket, each with its own options.
Hooks == {"Layout", "useRealtimeScholarships"}

Scholarships == {"DAAD", "Chevening"}

\* Text frames a server delivers.
FrameThinking == "{\"type\":\"ai_thinking\",\"content\":\"Searching\"}"
FrameFound(name) ==
    "{\"type\":\"scholarship_found\",\"data\":{\"scholarship\":{\"name\":\"" \o name \o "\"}}}"
FrameUntyped == "{\"message\":\"hello\"}"
FrameNull == "null"
FrameGarbage == "<html>"

Frames == {FrameThinking, FrameUntyped, FrameNull, FrameGarbage}
              \cup {FrameFound(n) : n \in Scholarships}

\* JSON.parse(event.data): the value, or a SyntaxError (ok = FALSE).
Data(kind, type, scholarship) == [kind |-> kind, type |-> type, scholarship |-> scholarship]

JSONParse(frame) ==
    CASE frame = FrameThinking -> [ok |-> TRUE, data |-> Data("object", "ai_thinking", "")]
      [] frame = FrameUntyped -> [ok |-> TRUE, data |-> Data("object", "", "")]
      [] frame = FrameNull -> [ok |-> TRUE, data |-> Data("null", "", "")]
      [] \E n \in Scholarships : frame = FrameFound(n)
            -> [ok |-> TRUE,
                data |-> Data("object", "scholarship_found",
                              CHOOSE n \in Scholarships : frame = FrameFound(n))]
      [] OTHER -> [ok |-> FALSE, data |-> Data("", "", "")]

\* One handler call made for a message.
Call(handler, key, callback) == [handler |-> handler, key |-> key, callback |-> callback]

NoDelivery == [connectionId |-> "", frame |-> "", calls |-> <<>>, toast |-> ""]
NoAdd == [key |-> "", callback |-> "", before |-> <<>>]

-----------------------------------------------------------------------------
(* Initial state *)

Init ==
    /\ sockets = [s \in Slots |-> NoSocket]
    /\ connections = [e \in Endpoints |-> 0]
    /\ reconnectAttempts = [e \in Endpoints |-> -1]
    /\ timers = EmptyBag
    /\ released = [e \in Endpoints |-> FALSE]
    /\ closeEvent = NoCloseEvent
    /\ attemptsSinceOpen = [e \in Endpoints |-> 0]
    /\ sendResult = NoSend
    /\ listeners = [k \in ListenerKeys |-> <<>>]
    /\ cleanups = EmptyBag
    /\ lastAdd = NoAdd
    /\ delivery = NoDelivery
    /\ recentScholarships = <<>>
    /\ received = <<>>
    /\ decisions = <<>>
    /\ thoughts = <<>>
    /\ metrics = <<>>
    /\ channel = <<>>
    /\ pc = "idle"
    /\ op = "none"
    /\ req = 0
    /\ clock = 0
    /\ start = 0
    /\ prompt = <<>>
    /\ resp = NoResponse
    /\ output = NoRecord
    /\ saved = NoRow
    /\ tstep = "persist"
    /\ thought = NoRow
    /\ exc = ""
    /\ result = NoResult
    /\ ncalls = 0
    /\ faults = {}
    /\ nfaults = 0

stores == <<decisions, thoughts, metrics, channel>>

\* Whether a write or a publish succeeds is the environment's choice.
Outcomes == IF nfaults < MaxFaults THEN BOOLEAN ELSE {TRUE}

Fault(f) ==
    /\ faults' = faults \cup {f}
    /\ nfaults' = nfaults + 1

NoFault == UNCHANGED <<faults, nfaults>>

\* A new request starts from a clean frame.
Begin(o, p, at) ==
    /\ pc \in {"idle", "done"}
    /\ req < MaxRequests
    /\ req' = req + 1
    /\ op' = o
    /\ pc' = at
    /\ start' = clock
    /\ clock' = clock
    /\ prompt' = p
    /\ resp' = NoResponse
    /\ output' = NoRecord
    /\ saved' = NoRow
    /\ tstep' = "persist"
    /\ thought' = NoRow
    /\ exc' = ""
    /\ result' = NoResult
    /\ ncalls' = 0
    /\ faults' = {}
    /\ UNCHANGED <<wsVars, msgVars, stores, nfaults>>

-----------------------------------------------------------------------------
(* 4.1 The completion call, shared by makeDecision and analyze *)

\* (mutant of OnCompletionError: the call is tried again)
OnCompletionErrorRetry(p) == p

\* Where a request goes when the completion call reports an error: to its
\* exception handler, never back to the call.
OnCompletionError(p) == IF p = "md_call" THEN "md_handler" ELSE "an_failed"

CompletionCall ==
    /\ pc \in {"md_call", "an_call"}
    /\ \E r \in Responses(op), d \in Delays :
         /\ resp' = r
         /\ clock' = clock + d
         /\ ncalls' = ncalls + 1
         /\ IF r.error # ""
               THEN /\ exc' = r.error
                    /\ pc' = OnCompletionError(pc)
               ELSE /\ exc' = exc
                    /\ pc' = IF pc = "md_call" THEN "md_parse" ELSE "an_parse"
    /\ UNCHANGED <<wsVars, msgVars, stores, op, req, start, prompt, output, saved, tstep, thought,
                   result, faults, nfaults>>

-----------------------------------------------------------------------------
(* 4.4 recordThought: persist, then best-effort publish.  It runs on its   *)
(* own and inside makeDecision and analyze.                                *)

ThoughtSites == {"md_thought", "an_begin", "an_found", "an_unparsed", "an_failed",
                 "rt_thought"}

PendingThought ==
    CASE pc = "md_thought"  -> ThoughtRow(req, "decision", "decision made", 0)
      [] pc = "an_begin"    -> ThoughtRow(req, "analysis", "analysis starting", 0)
      [] pc = "an_found"    -> ThoughtRow(req, "discovery", "extracted",
                                          Len(ParseAnalysis(resp.content).value.scholarships))
      [] pc = "an_unparsed" -> ThoughtRow(req, "error", "parse failed", 0)
      [] pc = "an_failed"   -> ThoughtRow(req, "error", exc, 0)
      [] OTHER              -> ThoughtRow(req, prompt[1], prompt[2], 0)

\* recordThought returns to its caller, which goes on (or returns itself).
ThoughtReturn ==
    /\ tstep' = "persist"
    /\ exc' = exc
    /\ pc' = CASE pc = "md_thought" -> "md_metric"
               [] pc = "an_begin"   -> "an_call"
               [] OTHER             -> "done"
    /\ result' = CASE pc = "an_found"    -> Returned(AnalysisResult("", "", ParseAnalysis(resp.content).value))
                   [] pc = "an_unparsed" -> Returned(AnalysisResult("parse failed", resp.content, NoAnalysis))
                   [] pc = "an_failed"   -> Returned(AnalysisResult(exc, "", NoAnalysis))
                   [] pc = "rt_thought"  -> Returned(thought)
                   [] OTHER              -> result

\* recordThought raises into its caller: makeDecision and the body of analyze
\* catch it, the handler of analyze and a direct caller do not.
ThoughtRaise(msg) ==
    /\ tstep' = "persist"
    /\ IF pc \in {"an_failed", "rt_thought"}
          THEN /\ pc' = "done"
               /\ result' = Raised(msg)
               /\ exc' = exc
          ELSE /\ pc' = (IF pc = "md_thought" THEN "md_handler" ELSE "an_failed")
               /\ exc' = msg
               /\ result' = result

ThoughtPersist ==
    /\ pc \in ThoughtSites
    /\ tstep = "persist"
    /\ \E ok \in Outcomes :
         IF ok
            THEN /\ thoughts' = Append(thoughts, PendingThought)
                 /\ thought' = PendingThought
                 /\ tstep' = "publish"
                 /\ UNCHANGED <<pc, exc, result>>
                 /\ NoFault
            ELSE /\ Fault("thought_write")
                 /\ ThoughtRaise(StoreDown)
                 /\ UNCHANGED <<thoughts, thought>>
    /\ UNCHANGED <<wsVars, msgVars, decisions, metrics, channel, op, req, clock, start, prompt, resp,
                   output, saved, ncalls>>

\* (mutant of PublishFailed: the transport error reaches the caller)
PublishFailedRaises ==
    /\ Fault("publish")
    /\ channel' = channel
    /\ ThoughtRaise("publish failed")

\* A failed publish is swallowed and logged.
PublishFailed ==
    /\ Fault("publish")
    /\ channel' = channel
    /\ ThoughtReturn

ThoughtPublish ==
    /\ pc \in ThoughtSites
    /\ tstep = "publish"
    /\ \E ok \in Outcomes :
         IF ok
            THEN /\ channel' = Append(channel, ThinkingMessage(thought))
                 /\ NoFault
                 /\ ThoughtReturn
            ELSE PublishFailed
    /\ UNCHANGED <<wsVars, msgVars, decisions, thoughts, metrics, op, req, clock, start, prompt, resp,
                   output, saved, thought, ncalls>>

RecordThought == Begin("recordThought", <<"discovery", "Found 3 scholarships at ETH Zurich">>, "rt_thought")

-----------------------------------------------------------------------------
(* 4.2 makeDecision *)

MakeDecision == Begin("makeDecision", <<"strategy_planning">>, "md_call")

\* Step 3: trust a well-formed text verbatim, default otherwise.
MDParse ==
    /\ pc = "md_parse"
    /\ output' = (LET p == ParseDecision(resp.content)
                  IN  IF p.ok THEN p.value ELSE FallbackOutput(resp.content))
    /\ pc' = "md_persist"
    /\ UNCHANGED <<wsVars, msgVars, stores, op, req, clock, start, prompt, resp, saved, tstep, thought,
                   exc, result, ncalls, faults, nfaults>>

\* Step 4, first write: the success row.  A failed write is an exception.
MDPersist ==
    /\ pc = "md_persist"
    /\ \E ok \in Outcomes :
         IF ok
            THEN LET row == DecisionRow(req, TRUE, output, output.confidence,
                                        clock - start, resp.tokens, "")
                 IN  /\ decisions' = Append(decisions, row)
                     /\ saved' = row
                     /\ pc' = "md_thought"
                     /\ UNCHANGED exc
                     /\ NoFault
            ELSE /\ exc' = StoreDown
                 /\ Fault("decision_write")
                 /\ pc' = "md_handler"
                 /\ UNCHANGED <<decisions, saved>>
    /\ UNCHANGED <<wsVars, msgVars, thoughts, metrics, channel, op, req, clock, start, prompt, resp,
                   output, tstep, thought, result, ncalls>>

\* (mutant of MetricFailed: the failed write is an exception of makeDecision)
MetricFailedRaises ==
    /\ Fault("metric_write")
    /\ metrics' = metrics
    /\ pc' = "md_handler"
    /\ result' = result
    /\ exc' = StoreDown

\* 4.5 recordMetric on a failed write: log and continue.
MetricFailed ==
    /\ Fault("metric_write")
    /\ metrics' = metrics
    /\ pc' = "done"
    /\ result' = Returned(saved)
    /\ exc' = exc

\* Step 4, last: the "decision_time" metric, then the Decision is returned.
MDMetric ==
    /\ pc = "md_metric"
    /\ \E ok \in Outcomes :
         IF ok
            THEN /\ metrics' = Append(metrics, MetricRow(req, "decision_time", clock - start))
                 /\ pc' = "done"
                 /\ result' = Returned(saved)
                 /\ UNCHANGED exc
                     /\ NoFault
            ELSE MetricFailed
    /\ UNCHANGED <<wsVars, msgVars, decisions, thoughts, channel, op, req, clock, start, prompt, resp,
                   output, saved, tstep, thought, ncalls>>

ErrorOutput(msg) == [decision |-> "", reasoning |-> msg, confidence |-> 0, extra |-> {}]

\* (mutant of MDHandler: the exception goes on without a failure row)
MDHandlerSilent ==
    /\ pc = "md_handler"
    /\ pc' = "done"
    /\ result' = Raised(exc)
    /\ UNCHANGED <<wsVars, msgVars, stores, op, req, clock, start, prompt, resp, output, saved, tstep,
                   thought, exc, ncalls, faults, nfaults>>

\* Step 5: the failure row, then the exception goes on to the caller.  When
\* the write of the failure row fails, its own exception goes to the caller.
MDHandler ==
    /\ pc = "md_handler"
    /\ \E ok \in Outcomes :
         IF ok
            THEN /\ decisions' = Append(decisions,
                        DecisionRow(req, FALSE, ErrorOutput(exc), 0, clock - start, 0, exc))
                 /\ result' = Raised(exc)
                 /\ NoFault
            ELSE /\ decisions' = decisions
                 /\ result' = Raised(StoreDown)
                 /\ Fault("failed_row_write")
    /\ pc' = "done"
    /\ UNCHANGED <<wsVars, msgVars, thoughts, metrics, channel, op, req, clock, start, prompt, resp,
                   output, saved, tstep, thought, exc, ncalls>>

-----------------------------------------------------------------------------
(* 4.3 analyze *)

Analyze == \E content \in Contents : Begin("analyze", Truncate(content), "an_begin")

\* (mutant of ANParseFailed: the parse error leaves analyze)
ANParseFailedThrows ==
    /\ pc' = "done"
    /\ result' = Raised("parse failed")

\* Step 4 on a parse failure: a failure Thought, then an error-shaped result.
ANParseFailed ==
    /\ pc' = "an_unparsed"
    /\ result' = result

ANParse ==
    /\ pc = "an_parse"
    /\ IF ParseAnalysis(resp.content).ok
          THEN pc' = "an_found" /\ result' = result
          ELSE ANParseFailed
    /\ UNCHANGED <<wsVars, msgVars, stores, op, req, clock, start, prompt, resp, output, saved, tstep,
                   thought, exc, ncalls, faults, nfaults>>

-----------------------------------------------------------------------------

Next ==
    \/ MakeDecision
    \/ Analyze
    \/ RecordThought
    \/ CompletionCall
    \/ MDParse
    \/ MDPersist
    \/ MDMetric
    \/ MDHandler
    \/ ANParse
    \/ ThoughtPersist
    \/ ThoughtPublish

Spec == Init /\ [][Next]_vars

-----------------------------------------------------------------------------
(* Properties of the agent pipeline, checked under Spec *)

Finished(o) == pc = "done" /\ op = o

\* The Decision rows the request in flight has written.
OwnRows == {i \in DOMAIN decisions : decisions[i].req = req}

IsFailureRow(row, msg) ==
    /\ ~row.success
    /\ row.confidence = 0
    /\ row.error # ""
    /\ row.error = msg
    /\ row.elapsed >= 0

Malformed == resp.error = "" /\ ~ParseDecision(resp.content).ok
WellFormed == resp.error = "" /\ ParseDecision(resp.content).ok

C2_OneRowPerRequest ==
    (Finished("makeDecision") /\ faults \cap {"decision_write", "failed_row_write"} = {})
        => Cardinality(OwnRows) = 1

\* C3 as stated: on a well-formed completion response, and with no storage or
\* transport fault, makeDecision returns a Decision with success=true and a
\* confidence within [0, 1].
C3_ConfidenceInRange ==
    (Finished("makeDecision") /\ WellFormed /\ faults = {})
        => /\ result.status = "returned"
           /\ result.value.success
           /\ result.value.confidence >= 0
           /\ result.value.confidence <= 100

IsFallbackDecision(row) ==
    /\ row.success
    /\ row.output.reasoning = resp.content
    /\ row.output.confidence = FallbackConfidence
    /\ row.output.extra = {}
    /\ row.confidence = FallbackConfidence

C6_ThoughtSurvivesBroadcastFailure ==
    /\ tstep = "publish" => \E i \in DOMAIN thoughts : thoughts[i] = thought
    /\ (Finished("recordThought") /\ "publish" \in faults)
          => /\ result.status = "returned"
             /\ result.value = thought
             /\ \E i \in DOMAIN thoughts : thoughts[i] = result.value
             /\ \A j \in DOMAIN channel : channel[j].req # req

C6_Witness ==
    /\ Finished("recordThought")
    /\ "publish" \in faults
    /\ result.status = "returned"
    /\ \E i \in DOMAIN thoughts : thoughts[i] = result.value

\* C7: a makeDecision or analyze request makes at most one outbound
\* completion call; after a failed call the request never returns to the
\* call, and the failure is what the request records.
C7_AtMostOneCompletionCall ==
    /\ ncalls <= 1
    /\ resp.error # "" => (ncalls = 1 /\ pc \notin {"md_call", "an_call"})
    /\ (Finished("makeDecision") /\ resp.error # "") => result.status = "raised"
    /\ (Finished("analyze") /\ resp.error # "" /\ result.status = "returned")
          => result.value.error = resp.error

C7_Witness ==
    /\ pc = "done"
    /\ op \in {"makeDecision", "analyze"}
    /\ resp.error # ""
    /\ ncalls = 1

\* C8: a failed write of the "decision_time" metric leaves the outcome of
\* makeDecision alone: the call returns the success=true Decision and the
\* request has written no success=false row.
C8_MetricFailureIsSwallowed ==
    (op = "makeDecision" /\ "metric_write" \in faults)
        => /\ pc = "done"
           /\ result.status = "returned"
           /\ result.value.success
           /\ result.value = saved
           /\ \A i \in OwnRows : decisions[i].success

C8_Witness ==
    /\ Finished("makeDecision")
    /\ "metric_write" \in faults
    /\ result.status = "returned"
    /\ \A i \in DOMAIN metrics : metrics[i].req # req

-----------------------------------------------------------------------------
(* WebSocketService (frontend/src/services/websocket.js) *)

\* disconnect(connectionId): closes and forgets the registered socket.
disconnect(st, e) ==
    LET ws == st.connections[e]
    IN  IF ws # 0
           THEN [st EXCEPT !.sockets[ws] = Close(@, NormalClosure),
                           !.connections[e] = 0,
                           !.reconnectAttempts[e] = -1]
           ELSE st

\* The slot a new WebSocket object takes.
HasFreeSlot(socks) == \E s \in Slots : socks[s] = NoSocket
FreeSlot(socks) == CHOOSE s \in Slots : socks[s] = NoSocket /\ \A r \in Slots : r < s => socks[r] # NoSocket

\* connect(endpoint, options): closes the registered socket, if any, and
\* creates a new one.  The new socket is registered by its onopen handler.
connect(st, e) ==
    LET st1 == IF st.connections[e] # 0 THEN disconnect(st, e) ELSE st
        slot == FreeSlot(st1.sockets)
    IN  [st1 EXCEPT !.sockets[slot] = NewSocket(e)]

\* attemptReconnect(endpoint, options): the timers after the call.
attemptReconnect(st, e, pending) ==
    LET attempts == IF st.reconnectAttempts[e] = -1 THEN 0 ELSE st.reconnectAttempts[e]
    IN  IF attempts >= maxReconnectAttempts
           THEN pending
           ELSE pending (+) SetToBag({[endpoint |-> e, attempts |-> attempts,
                                       delay |-> reconnectDelay * 2^attempts]})

\* The sockets and the pending reconnections the model follows.
Followed == Cardinality({s \in Slots : sockets[s] # NoSocket}) + BagCardinality(timers)

Install(st) ==
    /\ sockets' = st.sockets
    /\ connections' = st.connections
    /\ reconnectAttempts' = st.reconnectAttempts

\* useWebSocket, effect: websocketService.connect(endpoint, wsOptions).
Connect(e) ==
    /\ Followed < MaxSockets
    /\ Install(connect(Service, e))
    /\ released' = [released EXCEPT ![e] = FALSE]
    /\ sendResult' = NoSend
    /\ closeEvent' = NoCloseEvent
    /\ UNCHANGED <<agentVars, msgVars, timers, attemptsSinceOpen>>

\* useWebSocket, cleanup: websocketService.disconnect(endpoint).
Disconnect(e) ==
    /\ Install(disconnect(Service, e))
    /\ released' = [released EXCEPT ![e] = TRUE]
    /\ sendResult' = NoSend
    /\ closeEvent' = NoCloseEvent
    /\ UNCHANGED <<agentVars, msgVars, timers, attemptsSinceOpen>>

\* ws.onopen: the socket is registered and the attempt counter reset.
SocketOpen(s) ==
    /\ sockets[s].readyState = "CONNECTING"
    /\ sockets' = [sockets EXCEPT ![s].readyState = "OPEN"]
    /\ connections' = [connections EXCEPT ![sockets[s].endpoint] = s]
    /\ reconnectAttempts' = [reconnectAttempts EXCEPT ![sockets[s].endpoint] = 0]
    /\ attemptsSinceOpen' = [attemptsSinceOpen EXCEPT ![sockets[s].endpoint] = 0]
    /\ sendResult' = NoSend
    /\ closeEvent' = NoCloseEvent
    /\ UNCHANGED <<agentVars, msgVars, timers, released>>

\* The server starts the closing handshake of an open socket.
PeerClosing(s) ==
    /\ sockets[s].readyState = "OPEN"
    /\ \E code \in {NormalClosure, GoingAway} :
         sockets' = [sockets EXCEPT ![s] = Close(@, code)]
    /\ sendResult' = NoSend
    /\ closeEvent' = NoCloseEvent
    /\ UNCHANGED <<agentVars, msgVars, connections, reconnectAttempts, timers, released,
                   attemptsSinceOpen>>

\* The codes the close event of a socket may carry: the code of the closing
\* handshake when it completes, 1006 when the connection fails or is lost.
CloseCodes(ws) ==
    IF ws.readyState = "CLOSING" THEN {ws.closeCode, AbnormalClosure} ELSE {AbnormalClosure}

\* ws.onclose taking only code 1000 for an intentional close (mutant of
\* SocketClose).
SocketCloseOnlyNormal(s) ==
    /\ sockets[s].readyState # "CLOSED"
    /\ \E code \in CloseCodes(sockets[s]) :
         LET e == sockets[s].endpoint
         IN  /\ sockets' = [sockets EXCEPT ![s] = NoSocket]
             /\ connections' = [connections EXCEPT ![e] = 0]
             /\ timers' = IF code # NormalClosure
                             THEN attemptReconnect(Service, e, timers)
                             ELSE timers
             /\ closeEvent' = CloseEvent(e, code, code # NormalClosure)
    /\ sendResult' = NoSend
    /\ UNCHANGED <<agentVars, msgVars, reconnectAttempts, released, attemptsSinceOpen>>

\* ws.onclose: the entry of the endpoint is deleted; a close that was not
\* intentional schedules a reconnection.
SocketClose(s) ==
    /\ sockets[s].readyState # "CLOSED"
    /\ \E code \in CloseCodes(sockets[s]) :
         LET e == sockets[s].endpoint
         IN  /\ sockets' = [sockets EXCEPT ![s] = NoSocket]
             /\ connections' = [connections EXCEPT ![e] = 0]
             /\ timers' = IF code # NormalClosure /\ code # GoingAway
                             THEN attemptReconnect(Service, e, timers)
                             ELSE timers
             /\ closeEvent' = CloseEvent(e, code, code # NormalClosure /\ code # GoingAway)
    /\ sendResult' = NoSend
    /\ UNCHANGED <<agentVars, msgVars, reconnectAttempts, released, attemptsSinceOpen>>

\* The setTimeout callback of attemptReconnect: counts the attempt, connects.
ReconnectTimer(t) ==
    /\ HasFreeSlot(sockets)
    /\ LET counted == [Service EXCEPT !.reconnectAttempts[t.endpoint] = t.attempts + 1]
       IN  Install(connect(counted, t.endpoint))
    /\ timers' = timers (-) SetToBag({t})
    /\ attemptsSinceOpen' = [attemptsSinceOpen EXCEPT
                                ![t.endpoint] = IF @ > maxReconnectAttempts THEN @ ELSE @ + 1]
    /\ sendResult' = NoSend
    /\ closeEvent' = NoCloseEvent
    /\ UNCHANGED <<agentVars, msgVars, released>>

\* send without the readyState test (mutant of send).
sendAnyState(st, connectionId, message) ==
    LET ws == st.connections[connectionId]
    IN  IF ws # 0
           THEN [returned |-> TRUE, frame |-> Stringify(message)]
           ELSE [returned |-> FALSE, frame |-> ""]

\* send(connectionId, message): what it returns and the frame it hands to
\* ws.send (none: "").
send(st, connectionId, message) ==
    LET ws == st.connections[connectionId]
    IN  IF ws # 0 /\ st.sockets[ws].readyState = "OPEN"
           THEN [returned |-> TRUE, frame |-> Stringify(message)]
           ELSE [returned |-> FALSE, frame |-> ""]

\* useWebSocket, sendMessage: websocketService.send(endpoint, message).
Send(e, m) ==
    /\ sendResult' = [connectionId |-> e, message |-> m,
                      returned |-> send(Service, e, m).returned,
                      frame |-> send(Service, e, m).frame]
    /\ UNCHANGED <<agentVars, msgVars, sockets, connections, reconnectAttempts, timers, released,
                   closeEvent, attemptsSinceOpen>>

NextWS ==
    \/ \E e \in Endpoints : Connect(e)
    \/ \E e \in Endpoints : Disconnect(e)
    \/ \E s \in Slots : SocketOpen(s)
    \/ \E s \in Slots : PeerClosing(s)
    \/ \E s \in Slots : SocketClose(s)
    \/ \E t \in BagToSet(timers) : ReconnectTimer(t)
    \/ \E e \in Endpoints, m \in Outgoing : Send(e, m)

SpecWS == Init /\ [][NextWS]_vars

-----------------------------------------------------------------------------
(* Listeners and incoming messages (websocket.js, useWebSocket,
   useRealtimeScholarships) *)

\* addEventListener(connectionId, eventType, callback): appends the callback
\* to the list of the key.
addEventListener(ls, connectionId, eventType, callback) ==
    [ls EXCEPT ![Key(connectionId, eventType)] = Append(@, callback)]

\* listeners.indexOf(callback): the first position holding it (0: none).
IndexOf(seq, x) ==
    IF \E i \in 1..Len(seq) : seq[i] = x
       THEN CHOOSE i \in 1..Len(seq) : seq[i] = x /\ \A j \in 1..(i - 1) : seq[j] # x
       ELSE 0

\* listeners.splice(index, 1).
Splice(seq, index) == SubSeq(seq, 1, index - 1) \o SubSeq(seq, index + 1, Len(seq))

\* removeEventListener(connectionId, eventType, callback).
removeEventListener(ls, connectionId, eventType, callback) ==
    LET key == Key(connectionId, eventType)
        index == IndexOf(ls[key], callback)
    IN  IF index > 0 THEN [ls EXCEPT ![key] = Splice(@, index)] ELSE ls

Registrations == {<<k, i>> \in ListenerKeys \X (1..MaxListeners) : i <= Len(listeners[k])}

\* useWebSocket, addEventListener: registers and returns the cleanup function.
AddListener(id, type, callback) ==
    /\ Cardinality(Registrations) < MaxListeners
    /\ listeners' = addEventListener(listeners, id, type, callback)
    /\ cleanups' = cleanups (+) SetToBag({[connectionId |-> id, eventType |-> type,
                                          callback |-> callback]})
    /\ lastAdd' = [key |-> Key(id, type), callback |-> callback,
                   before |-> listeners[Key(id, type)]]
    /\ delivery' = NoDelivery
    /\ UNCHANGED <<agentVars, wsVars, recentScholarships, received>>

\* A component calls the cleanup function addEventListener returned.
Cleanup(c) ==
    /\ listeners' = removeEventListener(listeners, c.connectionId, c.eventType, c.callback)
    /\ cleanups' = cleanups (-) SetToBag({c})
    /\ lastAdd' = NoAdd
    /\ delivery' = NoDelivery
    /\ UNCHANGED <<agentVars, wsVars, recentScholarships, received>>

\* handleCommonMessages(data): the toast it raises ("": none).
handleCommonMessages(data) ==
    IF data.type = "scholarship_found"
       THEN "New scholarship found: "
                \o (IF data.scholarship = "" THEN "Unknown" ELSE data.scholarship)
       ELSE ""

\* The listeners of a key, each called in turn.
ListenerCalls(ls, key) == [i \in 1..Len(ls[key]) |-> Call("listener", key, ls[key][i])]

\* The first listener of the key that throws (0: none).
FirstThrow(ls, key) ==
    IF \E i \in 1..Len(ls[key]) : Throws(ls[key][i])
       THEN CHOOSE i \in 1..Len(ls[key]) :
                Throws(ls[key][i]) /\ \A j \in 1..(i - 1) : ~Throws(ls[key][j])
       ELSE 0

\* handleMessage looking listeners up by message type alone (mutant of
\* handleMessage).
handleMessageAnyConnection(ls, connectionId, data) ==
    IF data.kind = "null"
       THEN [calls |-> <<Call("onMessage", "", "")>>, toast |-> "", threw |-> TRUE]
       ELSE [calls |-> <<Call("onMessage", "", "")>>
                          \o (IF data.type # ""
                                 THEN ListenerCalls(ls, Key("dashboard", data.type))
                                          \o ListenerCalls(ls, Key("ai-chat", data.type))
                                 ELSE <<>>)
                          \o <<Call("handleCommonMessages", "", "")>>,
             toast |-> handleCommonMessages(data), threw |-> FALSE]

\* handleMessage without the try/catch around a listener (mutant of
\* handleMessage).
handleMessageNoCatch(ls, connectionId, data) ==
    LET key == Key(connectionId, data.type)
    IN  IF data.kind = "null"
           THEN [calls |-> <<Call("onMessage", "", "")>>, toast |-> "", threw |-> TRUE]
        ELSE IF data.type # "" /\ FirstThrow(ls, key) > 0
           THEN [calls |-> <<Call("onMessage", "", "")>>
                              \o SubSeq(ListenerCalls(ls, key), 1, FirstThrow(ls, key)),
                 toast |-> "", threw |-> TRUE]
        ELSE [calls |-> <<Call("onMessage", "", "")>>
                           \o (IF data.type # "" THEN ListenerCalls(ls, key) ELSE <<>>)
                           \o <<Call("handleCommonMessages", "", "")>>,
              toast |-> handleCommonMessages(data), threw |-> FALSE]

\* handleMessage(connectionId, data, options): the handlers it calls, in
\* order, the toast raised, and whether it ends in an exception.  options.
\* onMessage is the hook's handler; reading data.type of null throws, in the
\* handler of useRealtimeScholarships or else in handleMessage itself.
handleMessage(ls, connectionId, data) ==
    IF data.kind = "null"
       THEN [calls |-> <<Call("onMessage", "", "")>>, toast |-> "", threw |-> TRUE]
       ELSE [calls |-> <<Call("onMessage", "", "")>>
                          \o (IF data.type # ""
                                 THEN ListenerCalls(ls, Key(connectionId, data.type))
                                 ELSE <<>>)
                          \o <<Call("handleCommonMessages", "", "")>>,
             toast |-> handleCommonMessages(data), threw |-> FALSE]

\* handleScholarshipFound keeping ten earlier entries (mutant of
\* handleScholarshipFound).
handleScholarshipFoundSliceTen(prev, scholarship) ==
    <<scholarship>> \o SubSeq(prev, 1, Min(10, Len(prev)))

\* handleScholarshipFound: [scholarshipData.scholarship, ...prev.slice(0, 9)].
handleScholarshipFound(prev, scholarship) ==
    <<scholarship>> \o SubSeq(prev, 1, Min(9, Len(prev)))

\* ws.onmessage of an open socket created with the options of `hook`.
SocketMessage(s, hook, frame) ==
    /\ sockets[s].readyState = "OPEN"
    /\ LET id == sockets[s].endpoint
           parsed == JSONParse(frame)
           h == handleMessage(listeners, id, parsed.data)
           found == /\ parsed.ok
                    /\ hook = "useRealtimeScholarships"
                    /\ parsed.data.kind = "object"
                    /\ parsed.data.type = "scholarship_found"
       IN  /\ found => Len(received) < MaxMessages
           /\ delivery' = [connectionId |-> id, frame |-> frame,
                           calls |-> IF parsed.ok THEN h.calls ELSE <<>>,
                           toast |-> IF parsed.ok THEN h.toast ELSE ""]
           /\ recentScholarships' =
                  IF found
                     THEN handleScholarshipFound(recentScholarships, parsed.data.scholarship)
                     ELSE recentScholarships
           /\ received' = IF found THEN Append(received, parsed.data.scholarship)
                                   ELSE received
    /\ UNCHANGED <<agentVars, wsVars, listeners, cleanups, lastAdd>>

\* The effect of a hook that is the first to mount: no socket exists yet.
Mount(e) ==
    /\ \A s \in Slots : sockets[s] = NoSocket
    /\ Connect(e)

\* The service with components registering listeners, and the messages of
\* the socket Layout opened.  handleMessage reads the listeners only, so one
\* socket is followed from its creation.
NextMsg ==
    \/ \E e \in Endpoints : Mount(e)
    \/ \E s \in Slots : SocketOpen(s)
    \/ \E id \in ConnectionIds, t \in EventTypes, cb \in Callbacks : AddListener(id, t, cb)
    \/ \E c \in BagToSet(cleanups) : Cleanup(c)
    \/ \E s \in Slots, frame \in Frames : SocketMessage(s, "Layout", frame)

SpecMsg == Init /\ [][NextMsg]_vars

\* The messages of the socket useRealtimeScholarships opened.
NextRealtime ==
    \/ \E e \in Endpoints : Mount(e)
    \/ \E s \in Slots : SocketOpen(s)
    \/ \E s \in Slots, frame \in Frames : SocketMessage(s, "useRealtimeScholarships", frame)

SpecRealtime == Init /\ [][NextRealtime]_vars

-----------------------------------------------------------------------------
(* Properties of the WebSocketService, checked under SpecWS *)

Live(e) == {s \in Slots :
               sockets[s].endpoint = e /\ sockets[s].readyState \in {"CONNECTING", "OPEN"}}

\* C9 as stated: connect closes the existing connection of the endpoint
\* before creating the new one, so at any time at most one socket per endpoint
\* is connecting or open.
C9_OneLiveSocketPerEndpoint ==
    \A e \in Endpoints : Cardinality(Live(e)) <= 1

\* C10 as stated: once disconnect(endpoint) was called, and until connect is
\* called again, no socket is registered for the endpoint and no socket is
\* created for it.
C10_DisconnectIsFinal ==
    [][\A e \in Endpoints :
          (released[e] /\ released'[e])
              => /\ connections'[e] = 0
                 /\ \A s \in Slots :
                       (sockets[s] = NoSocket /\ sockets'[s] # NoSocket)
                           => sockets'[s].endpoint # e]_vars

\* The reconnection attempts the endpoint has counted (no entry counts as 0).
Attempts(e) == IF reconnectAttempts[e] = -1 THEN 0 ELSE reconnectAttempts[e]

\* The timer attemptReconnect schedules after `attempts` counted attempts.
BackoffTimer(e, attempts) ==
    [endpoint |-> e, attempts |-> attempts, delay |-> 1000 * 2^attempts]

\* C11: a close event is followed by a reconnection attempt if and only if its
\* code is neither 1000 nor 1001.  Whatever the code, the entry of the
\* endpoint is removed from connections; codes 1000 and 1001 schedule nothing;
\* any other code goes on to attemptReconnect, which schedules one timer as
\* long as fewer than 5 attempts were counted.
C11_ReconnectIffNotIntentional ==
    [][\A s \in Slots :
          (sockets[s] # NoSocket /\ sockets'[s] = NoSocket)
              => LET e == sockets[s].endpoint
                 IN  /\ closeEvent'.endpoint = e
                     /\ connections'[e] = 0
                     /\ closeEvent'.reconnect <=> closeEvent'.code \notin {1000, 1001}
                     /\ closeEvent'.code \in {1000, 1001} => timers' = timers
                     /\ (closeEvent'.code \notin {1000, 1001} /\ Attempts(e) < 5)
                           => timers' = timers (+) SetToBag({BackoffTimer(e, Attempts(e))})]_vars

C11_Witness ==
    /\ closeEvent.code = 1006
    /\ closeEvent.reconnect
    /\ connections[closeEvent.endpoint] = 0
    /\ \E t \in BagToSet(timers) : t.endpoint = closeEvent.endpoint

\* C12 as stated: between two opens of an endpoint at most 5 reconnection
\* attempts are made; once 5 attempts are counted an abnormal close schedules
\* no timer and creates no socket; the count returns to 0 only when a socket of
\* the endpoint opens.
C12_AtMostFiveAttempts ==
    [][\A e \in Endpoints :
          /\ attemptsSinceOpen'[e] <= 5
          /\ \A s \in Slots :
                (/\ sockets[s] # NoSocket /\ sockets[s].endpoint = e
                 /\ sockets'[s] = NoSocket
                 /\ Attempts(e) = 5)
                    => /\ timers' = timers
                       /\ \A r \in Slots : sockets[r] = NoSocket => sockets'[r] = NoSocket
          /\ (Attempts(e) > 0 /\ reconnectAttempts'[e] \in {0, -1})
                => \E s \in Slots : /\ sockets[s].endpoint = e
                                     /\ sockets[s].readyState = "CONNECTING"
                                     /\ sockets'[s].readyState = "OPEN"]_vars

\* C13 as stated: the timer that fires for the k-th reconnection attempt since
\* a socket of the endpoint last opened (k = 1..5) was scheduled with a delay
\* of 1000 * 2^(k-1) milliseconds: 1000, 2000, 4000, 8000, 16000, each attempt
\* waiting longer than the one before it.
C13_ExponentialBackoff ==
    [][\A t \in BagToSet(timers) :
          (CopiesIn(t, timers') < CopiesIn(t, timers) /\ attemptsSinceOpen'[t.endpoint] <= 5)
              => t.delay = 1000 * 2^(attemptsSinceOpen'[t.endpoint] - 1)]_vars

\* C14: send returns true and hands the serialised message to the socket if
\* and only if a socket is registered for the connection id and its readyState
\* is OPEN; otherwise it returns false and hands over nothing.  In both cases
\* it leaves the sockets, the connections map, the attempt counters and the
\* pending timers as they were.
C14_SendOnlyWhenOpen ==
    [][(sendResult' # sendResult /\ sendResult' # NoSend)
          => LET r == sendResult'
                 ws == connections[r.connectionId]
             IN  /\ r.returned <=> (ws # 0 /\ sockets[ws].readyState = "OPEN")
                 /\ r.returned => (r.frame # "" /\ r.frame = Stringify(r.message))
                 /\ ~r.returned => r.frame = ""
                 /\ UNCHANGED <<sockets, connections, reconnectAttempts, timers>>]_vars

C14_Witness ==
    /\ sendResult.returned
    /\ sendResult.message = [type |-> "ping"]
    /\ sendResult.frame = "{\"type\":\"ping\"}"
    /\ connections[sendResult.connectionId] # 0

-----------------------------------------------------------------------------
(* Properties of message handling, checked under SpecMsg and SpecRealtime *)

\* The calls a message of the given type on the connection is due: the
\* onMessage handler, the listeners of (connection, type) in registration
\* order, the common-message handler.
DueCalls(connectionId, type) ==
    <<Call("onMessage", "", "")>>
        \o (IF type \in EventTypes
               THEN [i \in 1..Len(listeners[Key(connectionId, type)]) |->
                        Call("listener", Key(connectionId, type),
                             listeners[Key(connectionId, type)][i])]
               ELSE <<>>)
        \o <<Call("handleCommonMessages", "", "")>>

\* C15 as stated: for every incoming message that parses as JSON the handlers
\* run in a fixed order: the onMessage handler, then every listener registered
\* for (connectionId, data.type) in registration order and no other listener,
\* then the common-message handler; an 'ai_thinking' message raises no toast.
C15_HandlersInOrder ==
    [][(delivery' # delivery /\ delivery' # NoDelivery /\ JSONParse(delivery'.frame).ok)
          => LET data == JSONParse(delivery'.frame).data
             IN  /\ delivery'.calls = DueCalls(delivery'.connectionId, data.type)
                 /\ data.type = "ai_thinking" => delivery'.toast = ""]_vars

\* C15 amended: the same for every incoming message that parses as a JSON
\* value other than null; for the JSON value null the onMessage handler is
\* the only handler called.
C15_HandlersInOrderUnlessNull ==
    [][(delivery' # delivery /\ delivery' # NoDelivery /\ JSONParse(delivery'.frame).ok)
          => LET data == JSONParse(delivery'.frame).data
             IN  IF delivery'.frame = "null"
                    THEN delivery'.calls = <<Call("onMessage", "", "")>> /\ delivery'.toast = ""
                    ELSE /\ delivery'.calls = DueCalls(delivery'.connectionId, data.type)
                         /\ data.type = "ai_thinking" => delivery'.toast = ""]_vars

C15_Witness ==
    /\ delivery.frame = FrameThinking
    /\ delivery.connectionId = "dashboard"
    /\ delivery.calls = <<Call("onMessage", "", ""),
                          Call("listener", "dashboard:ai_thinking", "crash"),
                          Call("listener", "dashboard:ai_thinking", "render"),
                          Call("handleCommonMessages", "", "")>>
    /\ delivery.toast = ""
    /\ listeners["ai-chat:ai_thinking"] # <<>>

\* C16: when a listener called for a message throws, the exception is caught:
\* every listener of the key is still called, in order, the common-message
\* handler runs after them (a 'scholarship_found' message raises its toast),
\* and the sockets and the connections map are left as they were, the
\* connection registered and open.
C16_ListenerExceptionIsCaught ==
    [][(/\ delivery' # delivery
        /\ delivery' # NoDelivery
        /\ \E i \in 1..Len(delivery'.calls) :
              delivery'.calls[i].handler = "listener" /\ Throws(delivery'.calls[i].callback))
          => LET id == delivery'.connectionId
                 type == JSONParse(delivery'.frame).data.type
                 due == listeners[Key(id, type)]
                 n == Len(delivery'.calls)
             IN  /\ n = Len(due) + 2
                 /\ \A j \in 1..Len(due) :
                       delivery'.calls[j + 1] = Call("listener", Key(id, type), due[j])
                 /\ delivery'.calls[n].handler = "handleCommonMessages"
                 /\ type = "scholarship_found" => delivery'.toast # ""
                 /\ UNCHANGED <<sockets, connections>>
                 /\ connections[id] # 0
                 /\ sockets[connections[id]].readyState = "OPEN"]_vars

C16_Witness ==
    /\ delivery.frame = FrameFound("DAAD")
    /\ delivery.calls = <<Call("onMessage", "", ""),
                          Call("listener", "dashboard:scholarship_found", "crash"),
                          Call("listener", "dashboard:scholarship_found", "render"),
                          Call("handleCommonMessages", "", "")>>
    /\ delivery.toast = "New scholarship found: DAAD"
    /\ connections["dashboard"] # 0
    /\ sockets[connections["dashboard"]].readyState = "OPEN"

\* The callbacks of a list other than cb, in order.
Others(seq, cb) == SelectSeq(seq, LAMBDA x : x # cb)

\* C17 as stated: calling the cleanup function addEventListener returned
\* undoes exactly that registration: called right after its registration it
\* leaves the list of the key as the registration found it; it removes at most
\* one occurrence of its callback, no other callback, and nothing under
\* another key.
C17_CleanupUndoesRegistration ==
    [][\A c \in BagToSet(cleanups) :
          CopiesIn(c, cleanups') < CopiesIn(c, cleanups)
              => LET key == Key(c.connectionId, c.eventType)
                 IN  /\ (lastAdd.key = key /\ lastAdd.callback = c.callback)
                           => listeners'[key] = lastAdd.before
                     /\ Len(listeners'[key]) >= Len(listeners[key]) - 1
                     /\ Others(listeners'[key], c.callback) = Others(listeners[key], c.callback)
                     /\ \A k \in ListenerKeys \ {key} : listeners'[k] = listeners[k]]_vars

\* C18: after any sequence of 'scholarship_found' messages
\* recentScholarships has at most 10 entries: the scholarships of the
\* messages received last, the newest first.
C18_LastTenNewestFirst ==
    /\ Len(recentScholarships) <= 10
    /\ Len(recentScholarships) = Min(10, Len(received))
    /\ \A i \in 1..Len(recentScholarships) :
          recentScholarships[i] = received[Len(received) - i + 1]

C18_Witness ==
    /\ Len(received) = 11
    /\ Len(recentScholarships) = 10
    /\ recentScholarships[1] = received[11]
    /\ recentScholarships[10] = received[2]
    /\ received[1] # received[2]
    /\ recentScholarships[1] # recentScholarships[2]

====
